---- MODULE Spec2Model ----
(***************************************************************************)
(* The Bevy application of src/src/main.rs: the MyStates state machine     *)
(* driven by the asset-loading state, the OnEnter(MyStates::Next) scene     *)
(* builder `expectations`, and the two gated Update systems `movement` and *)
(* `change_text_system`, run inside the engine's per-frame Main schedule.  *)
(*                                                                         *)
(* Numbers.  f32/f64 values are exact rationals here.  Time::delta is      *)
(* time_delta / TimeDen seconds.  A Vec3 component v stands for v / Scale  *)
(* with Scale = TimeDen^2 (fixed point).  A diagnostics sample k stands    *)
(* for k / SampleDen.                                                      *)
(***************************************************************************)
EXTENDS Integers, Sequences, FiniteSets, TLC

VARIABLES
    pc,            \* position in the Main schedule of the running App
    first_update,  \* TRUE during the first App::update
    state,         \* State<MyStates>
    next_state,    \* NextState<MyStates>: <<>> (None) or <<s>> (Some(s))
    loader,        \* the loading state's own progress: "Loading" / "Done"
    signals,       \* how many times the loader set NextState
    floor,         \* what Assets<Mesh> holds for the handle Models::floor
    entities,      \* the World's entities, in spawn order
    ambient_light, \* whether the AmbientLight resource was inserted
    n_materials,   \* entries added to Assets<StandardMaterial>
    n_meshes,      \* entries added to Assets<Mesh> by the program
    input,         \* Input<KeyCode>: [pressed, just_pressed]
    time_delta,    \* Time::delta, in 1/TimeDen seconds
    diagnostics,   \* DiagnosticsStore: metric -> Option<Diagnostic>
    ran,           \* the program's systems whose body ran in this frame
    runs,          \* how many times `expectations` has been invoked
    sched,         \* the Update systems not yet visited in this frame
    acc,           \* movement's local translation.y as line 170 last read it
    previous_y,    \* in a frame movement ran in: acc as the call before left it
    panic          \* "" or the message of the panic that ended the process

vars == <<pc, first_update, state, next_state, loader, signals, floor, entities,
          ambient_light, n_materials, n_meshes, input, time_delta, diagnostics,
          ran, runs, sched, acc, previous_y, panic>>

----------------------------------------------------------------------------
(* Bounds of the model *)

\* ticks per second: Time::delta is a multiple of 1/TimeDen s
TimeDen == 2
\* the longest frame, in ticks (so frames shorter than, equal to and longer
\* than one second all occur)
MaxDt == 3
\* resolution of a smoothed diagnostics sample: it is a multiple of 1/SampleDen
SampleDen == 16
\* the largest smoothed diagnostics sample, in 1/SampleDen
MaxSample == 1
\* how many times the completion signal may be delivered in SpecDup
MaxSignals == 3

Scale == TimeDen * TimeDen

----------------------------------------------------------------------------
(* Option<T>: None is <<>>, Some(v) is <<v>> *)

None == <<>>
Some(v) == <<v>>
IsSome(o) == Len(o) = 1
Unwrap(o) == o[1]

----------------------------------------------------------------------------
(* enum MyStates, #[default] AssetLoading *)

MyStates == {"AssetLoading", "Next", "InGame"}
DefaultState == "AssetLoading"

\* LoadingState::new(MyStates::AssetLoading).continue_to_state(MyStates::Next)
LoadingStateOf == "AssetLoading"
\* line 42, faulty variant: the loader continues to InGame
ContinueToInGame == "InGame"
\* line 42
ContinueTo == "Next"

----------------------------------------------------------------------------
(* The World's entities *)

Entity(comps, text, translation) ==
    [comps |-> comps, text |-> text, translation |-> translation]

With(c) == {i \in 1..Len(entities) : c \in entities[i].comps}

InitialText == "This text changes in the bottom right"
SecondText == "This\ntext has\nline breaks and also a set width in the bottom left"

\* infotext_system: the two commands it queues
infotext_system ==
    << Entity({"Text", "TextChanges"}, InitialText, None),
       Entity({"Text"}, SecondText, None) >>

----------------------------------------------------------------------------
(* fn expectations: the OnEnter(MyStates::Next) scene builder *)

\* Assets<Mesh>::get(&assets.floor): None unless the mesh is in the store
MeshGet(f) == IF f \in {"ok", "degenerate"} THEN Some(f) ELSE None

\* Collider::from_bevy_mesh(mesh, TriMesh): None for a mesh without usable
\* vertex/index data
from_bevy_mesh(m) == IF m = "ok" THEN Some("Collider::TriMesh") ELSE None

FloorBody(shape) ==
    Entity({"PbrBundle", shape, "RigidBody::Fixed"}, "", None)
Camera == Entity({"Camera3dBundle"}, "", None)
Ball ==
    Entity({"PbrBundle", "RigidBody::Dynamic", "GravityScale", "Collider::Ball"},
           "", None)
Forced ==
    Entity({"RigidBody::Dynamic", "ExternalForce", "ExternalImpulse"}, "", None)
\* KinematicCharacterController { offset, ..default() }: translation is None
Character ==
    Entity({"PbrBundle", "Collider::Cuboid", "KinematicCharacterController",
            "ColliderMassProperties"}, "", None)

\* expectations, faulty variant: a failed conversion gives an empty shape
expectations_spawns_shapeless(f) ==
    LET shape == from_bevy_mesh(f)
    IN  [panic |-> "",
         spawn |-> << FloorBody(IF IsSome(shape) THEN Unwrap(shape)
                                ELSE "Collider::Empty"),
                      Camera, Ball, Forced, Character >>,
         light |-> TRUE, materials |-> 3, meshes |-> 2]

\* expectations, faulty variant: lines 119-136 left out
expectations_without_character(f) ==
    IF ~IsSome(MeshGet(f))
    THEN [panic |-> "Image should be added to its asset resource",
          spawn |-> << >>, light |-> FALSE, materials |-> 0, meshes |-> 0]
    ELSE IF ~IsSome(from_bevy_mesh(Unwrap(MeshGet(f))))
    THEN [panic |-> "called Option::unwrap on a None value",
          spawn |-> << >>, light |-> FALSE, materials |-> 0, meshes |-> 0]
    ELSE [panic |-> "",
          spawn |-> << FloorBody(Unwrap(from_bevy_mesh(Unwrap(MeshGet(f))))),
                       Camera, Ball, Forced >>,
          light |-> TRUE, materials |-> 2, meshes |-> 1]

\* One run of expectations with the floor mesh in condition f: the panic it ends
\* in (lines 63, 65), or the commands it queues and the assets it adds.
expectations(f) ==
    IF ~IsSome(MeshGet(f))
    THEN [panic |-> "Image should be added to its asset resource",
          spawn |-> << >>, light |-> FALSE, materials |-> 0, meshes |-> 0]
    ELSE IF ~IsSome(from_bevy_mesh(Unwrap(MeshGet(f))))
    THEN [panic |-> "called Option::unwrap on a None value",
          spawn |-> << >>, light |-> FALSE, materials |-> 0, meshes |-> 0]
    ELSE [panic |-> "",
          spawn |-> << FloorBody(Unwrap(from_bevy_mesh(Unwrap(MeshGet(f))))),
                       Camera, Ball, Forced, Character >>,
          light |-> TRUE, materials |-> 3, meshes |-> 2]

----------------------------------------------------------------------------
(* Input<KeyCode> and the engine's keyboard_input_system *)

Keys == {"Right", "Left", "Down", "Up", "W", "S"}
\* the keys the program asks just_pressed of (lines 164, 167); the model keeps
\* the just_pressed set for these only
JustKeys == {"W", "S"}

\* a KeyboardInput event: key_code and ButtonState (Pressed or Released)
KeyEvents == [key : Keys, pressed : BOOLEAN]

\* Input::press / Input::release
Press(inp, k) ==
    [pressed |-> inp.pressed \cup {k},
     just_pressed |-> IF k \in inp.pressed THEN inp.just_pressed
                      ELSE inp.just_pressed \cup ({k} \cap JustKeys)]
Release(inp, k) ==
    [pressed |-> inp.pressed \ {k}, just_pressed |-> inp.just_pressed]

\* Input::clear, with which keyboard_input_system starts
Clear(inp) == [pressed |-> inp.pressed, just_pressed |-> {}]

\* keyboard_input_system on one event
keyboard_event(inp, e) ==
    IF e.pressed THEN Press(inp, e.key) ELSE Release(inp, e.key)

----------------------------------------------------------------------------
(* fn movement, lines 139-172 *)

\* a literal c, and Time::delta_seconds() for a delta of dt ticks, in fixed point
Lit(c) == c * Scale
DeltaSeconds(dt) == dt * TimeDen
\* the product of two fixed-point values (exact for every product movement forms)
Mul(a, b) == (a * b) \div Scale

\* line 146: movement starts each call from a new Vec3(0, 0, 0); `previous` is
\* translation.y as the call before left it, which the code does not read
translation_y_carried(previous) == previous  \* faulty variant: y carried over
translation_y_start(previous) == 0

\* lines 148-154, faulty variant: the opposite key is looked at only if the first is up
translation_x_exclusive(inp, dt) ==
    IF "Right" \in inp.pressed THEN Mul(DeltaSeconds(dt), Lit(5))
    ELSE IF "Left" \in inp.pressed
         THEN Mul(Mul(DeltaSeconds(dt), Lit(5)), Lit(-1))
         ELSE 0
\* lines 148-154
translation_x(inp, dt) ==
    LET x0 == 0
        x1 == IF "Right" \in inp.pressed
              THEN x0 + Mul(DeltaSeconds(dt), Lit(5)) ELSE x0
    IN  IF "Left" \in inp.pressed
        THEN x1 + Mul(Mul(DeltaSeconds(dt), Lit(5)), Lit(-1)) ELSE x1

\* lines 156-162
translation_z(inp, dt) ==
    LET z0 == 0
        z1 == IF "Down" \in inp.pressed
              THEN z0 + Mul(DeltaSeconds(dt), Lit(5)) ELSE z0
    IN  IF "Up" \in inp.pressed
        THEN z1 + Mul(Mul(DeltaSeconds(dt), Lit(5)), Lit(-1)) ELSE z1

\* lines 164-169: translation.y after the two just_pressed tests, from y0
jump(inp, dt, y0) ==
    LET y1 == IF "W" \in inp.just_pressed
              THEN y0 + Mul(Mul(DeltaSeconds(dt), Lit(10)), Lit(1)) ELSE y0
    IN  IF "S" \in inp.just_pressed
        THEN y1 + Mul(Mul(DeltaSeconds(dt), Lit(10)), Lit(-1)) ELSE y1

\* line 170, faulty variant: the bias added instead of subtracted
fall_plus(y, dt) == Mul(Mul(DeltaSeconds(dt), Lit(10)), y + Lit(10))
\* line 170
fall(y, dt) == Mul(Mul(DeltaSeconds(dt), Lit(10)), y - Lit(10))

\* the Vec3 line 171 stores, and the value line 170 read
movement(inp, dt, previous) ==
    LET y == jump(inp, dt, translation_y_start(previous))
    IN  [acc |-> y,
         translation |-> [x |-> translation_x(inp, dt),
                          y |-> fall(y, dt),
                          z |-> translation_z(inp, dt)]]

----------------------------------------------------------------------------
(* fn change_text_system, lines 177-205 *)

FPS == "fps"
FRAME_TIME == "frame_time"
Metrics == {FPS, FRAME_TIME}

\* a number num / den
Ratio(num, den) == [num |-> num, den |-> den]

\* DiagnosticsStore::get(id) and Diagnostic::smoothed()
Get(store, id) == store[id]
Smoothed(diagnostic) ==
    IF IsSome(diagnostic) THEN Some(Ratio(Unwrap(diagnostic), SampleDen)) ELSE None

RECURSIVE Pow10(_)
Pow10(p) == IF p = 0 THEN 1 ELSE 10 * Pow10(p - 1)

\* v in units of 10^-p, rounded to the nearest, a tie to the even one
Rounded(v, p) ==
    LET s == v.num * Pow10(p)
        q == s \div v.den
        r == s % v.den
    IN  IF 2 * r > v.den \/ (2 * r = v.den /\ q % 2 = 1) THEN q + 1 ELSE q

RECURSIVE Digits(_, _)
Digits(m, p) == IF p = 0 THEN "" ELSE Digits(m \div 10, p - 1) \o ToString(m % 10)

\* format!("{v:.p}") of a value v >= 0
Fixed(v, p) ==
    LET q == Rounded(v, p)
    IN  ToString(q \div Pow10(p)) \o "." \o Digits(q % Pow10(p), p)

\* line 198
Format(fps, frame_time) ==
    "This text changes in the bottom right - " \o Fixed(fps, 1) \o " fps, "
        \o Fixed(frame_time, 3) \o " ms/frame"

\* lines 183-188
fps_of(store) ==
    LET fps == Ratio(0, 1)
    IN  IF IsSome(Get(store, FPS))
        THEN IF IsSome(Smoothed(Unwrap(Get(store, FPS))))
             THEN Unwrap(Smoothed(Unwrap(Get(store, FPS))))
             ELSE fps
        ELSE fps

\* lines 190-196, faulty variant: no sample shows as 0 like the frame rate
frame_time_zero(store, dt) ==
    IF IsSome(Get(store, FRAME_TIME))
       /\ IsSome(Smoothed(Unwrap(Get(store, FRAME_TIME))))
    THEN Unwrap(Smoothed(Unwrap(Get(store, FRAME_TIME))))
    ELSE Ratio(0, 1)
\* lines 190-196
frame_time_of(store, dt) ==
    LET frame_time == Ratio(dt, TimeDen)
    IN  IF IsSome(Get(store, FRAME_TIME))
        THEN IF IsSome(Smoothed(Unwrap(Get(store, FRAME_TIME))))
             THEN Unwrap(Smoothed(Unwrap(Get(store, FRAME_TIME))))
             ELSE frame_time
        ELSE frame_time

\* the value written to text.sections[0].value
change_text_system(store, dt) == Format(fps_of(store), frame_time_of(store, dt))

----------------------------------------------------------------------------
(* fn main, lines 31-50: what is registered where *)

\* add_systems(Startup, ..), line 45
StartupSystems == {"infotext_system"}
\* line 46, faulty variant: expectations registered on the loading state's OnEnter
OnEnter_loading(s) == IF s = "AssetLoading" THEN {"expectations"} ELSE {}
\* add_systems(OnEnter(MyStates::Next), expectations), line 46
OnEnter(s) == IF s = "Next" THEN {"expectations"} ELSE {}
\* add_systems(Update, ..), lines 47-48
UpdateSystems == {"movement", "change_text_system"}
\* run_if(in_state(MyStates::Next)), faulty variant: no run condition
run_if_always(sys, st) == TRUE
\* run_if(in_state(MyStates::Next)) on both Update systems, lines 47-48
run_if(sys, st) == st = "Next"

\* add_state::<MyStates>(), line 33: apply_state_transition takes the queued
\* state only if it differs from the current one
transition(current, entered) == current # entered

\* commands are applied when the schedule that queued them ends
apply_deferred(es, spawn) == es \o spawn

\* RapierPhysicsPlugin, line 36: the character-control step takes the pending
\* translation out of every KinematicCharacterController
update_character_controls(es) ==
    [i \in 1..Len(es) |-> [es[i] EXCEPT !.translation = None]]

\* the values a DiagnosticsStore entry can hold: not registered, registered
\* without a smoothed sample, registered with one
DiagnosticValues ==
    {None, Some(None)} \cup {Some(Some(k)) : k \in 1..MaxSample}

----------------------------------------------------------------------------
(* The running App *)

Init ==
    /\ pc = "Startup"
    /\ first_update = TRUE
    /\ state = DefaultState
    /\ next_state = None
    /\ loader = "Loading"
    /\ signals = 0
    /\ floor = "unloaded"
    /\ entities = << >>
    /\ ambient_light = FALSE
    /\ n_materials = 0
    /\ n_meshes = 0
    /\ input = [pressed |-> {}, just_pressed |-> {}]
    /\ time_delta = 0
    /\ diagnostics = [m \in Metrics |-> Some(None)]
    /\ ran = {}
    /\ runs = 0
    /\ sched = UpdateSystems
    /\ acc = 0
    /\ previous_y = 0
    /\ panic = ""

\* the Startup schedule of the first App::update: infotext_system, line 45
Startup ==
    /\ pc = "Startup"
    /\ entities' = apply_deferred(entities, infotext_system)
    /\ ran' = StartupSystems
    /\ pc' = "First"
    /\ UNCHANGED <<first_update, state, next_state, loader, signals, floor,
                   ambient_light, n_materials, n_meshes, input, time_delta,
                   diagnostics, runs, sched, acc, previous_y, panic>>

\* First: Time is updated; its delta is zero on the first update
TimeSystem ==
    /\ pc = "First"
    /\ IF first_update THEN time_delta' = 0 ELSE time_delta' \in 1..MaxDt
    /\ pc' = "PreUpdate"
    /\ UNCHANGED <<first_update, state, next_state, loader, signals, floor, entities,
                   ambient_light, n_materials, n_meshes, input, diagnostics, ran,
                   runs, sched, acc, previous_y, panic>>

\* PreUpdate: keyboard_input_system starts by clearing the edges of the last frame
KeyboardInputSystem ==
    /\ pc = "PreUpdate"
    /\ input' = Clear(input)
    /\ pc' = IF first_update THEN "EnterSchedule" ELSE "StateTransition"
    /\ UNCHANGED <<first_update, state, next_state, loader, signals, floor,
                   entities, ambient_light, n_materials, n_meshes, time_delta,
                   diagnostics, ran, runs, sched, acc, previous_y, panic>>

\* PreUpdate: keyboard_input_system takes one of the events since the last frame
KeyEvent ==
    /\ pc \in {"EnterSchedule", "StateTransition"}
    /\ \E e \in KeyEvents : input' = keyboard_event(input, e)
    /\ UNCHANGED <<pc, first_update, state, next_state, loader, signals, floor,
                   entities, ambient_light, n_materials, n_meshes, time_delta,
                   diagnostics, ran, runs, sched, acc, previous_y, panic>>

\* The OnEnter(s) schedule run to its end: expectations if it is registered
\* there (line 46), its queued commands applied when it returns; the App goes
\* on at `after` unless the system panicked.
RunOnEnter(s, after) ==
    IF "expectations" \in OnEnter(s)
    THEN LET r == expectations(floor)
         IN  /\ runs' = runs + 1
             /\ ran' = ran \cup {"expectations"}
             /\ n_materials' = n_materials + r.materials
             /\ n_meshes' = n_meshes + r.meshes
             /\ IF r.panic # ""
                THEN /\ panic' = r.panic
                     /\ pc' = "Crashed"
                     /\ UNCHANGED <<entities, ambient_light>>
                ELSE /\ entities' = apply_deferred(entities, r.spawn)
                     /\ ambient_light' = (ambient_light \/ r.light)
                     /\ pc' = after
                     /\ UNCHANGED panic
    ELSE /\ pc' = after
         /\ UNCHANGED <<entities, ambient_light, n_materials, n_meshes, ran, runs,
                        panic>>

\* StateTransition, first update only: add_state (line 33) runs the OnEnter
\* schedule of the initial state once
RunEnterSchedule ==
    /\ pc = "EnterSchedule"
    /\ RunOnEnter(state, "StateTransition")
    /\ UNCHANGED <<first_update, state, next_state, loader, signals, floor,
                   input, time_delta, diagnostics, sched, acc, previous_y>>

\* StateTransition: apply_state_transition::<MyStates> (line 33) takes the
\* queued state and runs the OnEnter schedule of the state entered inside it
ApplyStateTransition ==
    /\ pc = "StateTransition"
    /\ next_state' = None
    /\ IF IsSome(next_state) /\ transition(state, Unwrap(next_state))
       THEN /\ state' = Unwrap(next_state)
            /\ RunOnEnter(Unwrap(next_state), "Update")
       ELSE /\ pc' = "Update"
            /\ UNCHANGED <<state, entities, ambient_light, n_materials, n_meshes,
                           ran, runs, panic>>
    /\ UNCHANGED <<first_update, loader, signals, floor, input, time_delta,
                   diagnostics, sched, acc, previous_y>>

\* FrameTimeDiagnosticsPlugin, line 38: the host refreshes the store between
\* two frames
DiagnosticsRefresh ==
    /\ pc = "First"
    /\ diagnostics' \in [Metrics -> DiagnosticValues]
    /\ UNCHANGED <<pc, first_update, state, next_state, loader, signals, floor,
                   entities, ambient_light, n_materials, n_meshes, input,
                   time_delta, ran, runs, sched, acc, previous_y, panic>>

\* Update: movement, under its run condition (line 47)
Movement ==
    /\ pc = "Update"
    /\ "movement" \in sched
    /\ sched' = sched \ {"movement"}
    /\ IF run_if("movement", state)
       THEN /\ ran' = ran \cup {"movement"}
            /\ IF Cardinality(With("KinematicCharacterController")) # 1
               THEN \* query.single_mut() panics, line 144
                    /\ panic' = "single_mut: not exactly one entity"
                    /\ pc' = "Crashed"
                    /\ UNCHANGED <<entities, acc, previous_y>>
               ELSE LET i == CHOOSE j \in With("KinematicCharacterController") : TRUE
                        m == movement(input, time_delta, acc)
                    IN  /\ entities' =
                              [entities EXCEPT ![i].translation = Some(m.translation)]
                        /\ acc' = m.acc
                        /\ previous_y' = acc
                        /\ UNCHANGED <<pc, panic>>
       ELSE UNCHANGED <<ran, entities, acc, previous_y, pc, panic>>
    /\ UNCHANGED <<first_update, state, next_state, loader, signals, floor,
                   ambient_light, n_materials, n_meshes, input, time_delta,
                   diagnostics, runs>>

\* Update: change_text_system, under its run condition (line 48)
ChangeTextSystem ==
    /\ pc = "Update"
    /\ "change_text_system" \in sched
    /\ sched' = sched \ {"change_text_system"}
    /\ IF run_if("change_text_system", state)
       THEN /\ ran' = ran \cup {"change_text_system"}
            /\ entities' =
                 [i \in 1..Len(entities) |->
                    IF i \in With("TextChanges")
                    THEN [entities[i] EXCEPT
                            !.text = change_text_system(diagnostics, time_delta)]
                    ELSE entities[i]]
       ELSE UNCHANGED <<ran, entities>>
    /\ UNCHANGED <<pc, first_update, state, next_state, loader, signals, floor,
                   ambient_light, n_materials, n_meshes, input, time_delta,
                   diagnostics, runs, acc, previous_y, panic>>

\* add_loading_state, lines 40-44: while the app is in the loading state the
\* collection finishes loading in some frame; the loader then queues the state
\* to continue to.  What Assets<Mesh> then holds for Models::floor is the
\* asset pipeline's.
LoadingStateFinish ==
    /\ pc = "Update"
    /\ state = LoadingStateOf
    /\ loader = "Loading"
    /\ loader' = "Done"
    /\ signals' = signals + 1
    /\ next_state' = Some(ContinueTo)
    /\ floor' \in {"ok", "degenerate", "missing"}
    /\ UNCHANGED <<pc, first_update, state, entities, ambient_light, n_materials,
                   n_meshes, input, time_delta, diagnostics, ran, runs, sched,
                   acc, previous_y, panic>>

\* the completion signal delivered again
DuplicateSignal ==
    /\ pc = "Update"
    /\ loader = "Done"
    /\ signals < MaxSignals
    /\ signals' = signals + 1
    /\ next_state' = Some(ContinueTo)
    /\ UNCHANGED <<pc, first_update, state, loader, floor, entities,
                   ambient_light, n_materials, n_meshes, input, time_delta,
                   diagnostics, ran, runs, sched, acc, previous_y, panic>>

\* PostUpdate and Last: physics consumes the pending translation; the frame ends
EndFrame ==
    /\ pc = "Update"
    /\ sched = {}
    /\ entities' = update_character_controls(entities)
    /\ ran' = {}
    /\ sched' = UpdateSystems
    /\ previous_y' = 0
    /\ first_update' = FALSE
    /\ pc' = "First"
    /\ UNCHANGED <<state, next_state, loader, signals, floor,
                   ambient_light, n_materials, n_meshes, input, time_delta,
                   diagnostics, runs, acc, panic>>

\* the App's schedules
Frame ==
    \/ Startup
    \/ TimeSystem
    \/ KeyboardInputSystem
    \/ RunEnterSchedule
    \/ ApplyStateTransition
    \/ Movement
    \/ ChangeTextSystem
    \/ LoadingStateFinish
    \/ EndFrame

\* the program with its keyboard and its diagnostics store
Next == Frame \/ KeyEvent \/ DiagnosticsRefresh
Spec == Init /\ [][Next]_vars

\* the program with its keyboard, the diagnostics store left without samples
NextKeys == Frame \/ KeyEvent
SpecKeys == Init /\ [][NextKeys]_vars

\* the program with its diagnostics store, no key touched
NextText == Frame \/ DiagnosticsRefresh
SpecText == Init /\ [][NextText]_vars

\* SpecText with the completion signal delivered up to MaxSignals times
NextDup == Frame \/ DiagnosticsRefresh \/ DuplicateSignal
SpecDup == Init /\ [][NextDup]_vars

----------------------------------------------------------------------------
(* Properties *)

\* the position of a state in enum MyStates, lines 22-27
Ord(s) == CASE s = "AssetLoading" -> 0 [] s = "Next" -> 1 [] s = "InGame" -> 2

Controlled == With("KinematicCharacterController")
\* the one kinematic-controlled body, where there is one
Player == entities[CHOOSE i \in Controlled : TRUE]
\* movement ran in this frame and returned
Moved == "movement" \in ran /\ panic = ""
\* 1 if key k is in set ks, else 0
Held(k, ks) == IF k \in ks THEN 1 ELSE 0

\* C1: the scene builder `expectations` is invoked at most once in a run, and
\* exactly when State<MyStates> goes from AssetLoading to Next; it is never
\* invoked from another place of the frame (Update included); a completion
\* signal delivered again does not invoke it again, so there is never more
\* than one fixed floor body.
C1_SceneBuilderOnce ==
    /\ [](/\ runs <= 1
          /\ Cardinality(With("RigidBody::Fixed")) <= 1
          /\ (runs = 1 <=> state # "AssetLoading"))
    /\ [][runs' # runs =>
            /\ pc = "StateTransition"
            /\ state = "AssetLoading" /\ state' = "Next"
            /\ runs' = runs + 1]_vars
    /\ [][(state = "AssetLoading" /\ state' = "Next") => runs' = runs + 1]_vars

\* C1 witness: the signal came twice, both were handled, and there is one floor
C1_Witness ==
    /\ signals >= 2
    /\ next_state = None
    /\ pc = "Update"
    /\ runs = 1
    /\ Cardinality(With("RigidBody::Fixed")) = 1

\* C2: while State<MyStates> is AssetLoading neither movement nor
\* change_text_system runs in a frame, the overlay text is still the one
\* infotext_system gave it, and no controller has a pending translation.
C2_GatedWhileLoading ==
    state = "AssetLoading" =>
        /\ "movement" \notin ran
        /\ "change_text_system" \notin ran
        /\ \A i \in With("TextChanges") : entities[i].text = InitialText
        /\ \A i \in 1..Len(entities) : entities[i].translation = None

\* C2 witness: a whole Update passed in AssetLoading, with the overlay there
\* and the diagnostics store holding samples
C2_Witness ==
    /\ state = "AssetLoading"
    /\ pc = "Update"
    /\ sched = {}
    /\ With("TextChanges") # {}
    /\ time_delta > 0
    /\ diagnostics[FPS] = Some(Some(1))

\* C3: State<MyStates> is always one of the three states, starts at
\* AssetLoading, and changes only to the state that follows it in the enum;
\* it leaves AssetLoading only for the state the loader's signal queued.
C3_ForwardOnly ==
    /\ state = "AssetLoading"
    /\ [](state \in MyStates)
    /\ [][state' # state =>
            /\ Ord(state') = Ord(state) + 1
            /\ (state = "AssetLoading" =>
                    signals >= 1 /\ next_state = Some(state'))]_vars

\* C3 witness: the state has left AssetLoading
C3_Witness == state = "Next" /\ pc = "Update" /\ signals = 1

\* C5: when expectations runs and the floor mesh is not in Assets<Mesh>, or
\* its conversion gives no shape, the process ends in a panic with nothing
\* of the scene created; a fixed body always has the trimesh collider.
C5_NoShapelessFloor ==
    /\ (runs >= 1 /\ floor # "ok") =>
          /\ pc = "Crashed"
          /\ panic # ""
          /\ entities = infotext_system
          /\ ~ambient_light
          /\ n_materials = 0
          /\ n_meshes = 0
    /\ \A i \in With("RigidBody::Fixed") :
          "Collider::TriMesh" \in entities[i].comps

\* C5 witness: expectations ran on a mesh whose conversion gives no shape
C5_Witness == runs = 1 /\ floor = "degenerate" /\ pc = "Crashed"

\* C6: in a frame movement ran in, the y it wrote is dt * 10 * (a - 10) with
\* a = 10 * dt * ([W just pressed] - [S just pressed]), whatever direction
\* keys are held; without an edge that is -100 * dt, which is downward.
\* (dt = time_delta / TimeDen and y = translation.y / TimeDen^2.)
C6_VerticalFormula ==
    Moved =>
        LET s == Held("W", input.just_pressed) - Held("S", input.just_pressed)
            y == Unwrap(Player.translation).y
        IN  /\ y = 100 * time_delta * (time_delta * s - TimeDen)
            /\ (s = 0 => y = -100 * time_delta * TimeDen /\ y < 0)

\* C6 witness: both edges in one frame, with a direction key held
C6_Witness ==
    /\ Moved
    /\ input.just_pressed = {"W", "S"}
    /\ "Left" \in input.pressed
    /\ Unwrap(Player.translation).y = -100 * time_delta * TimeDen

\* C7: in a frame movement ran in, x = 5 * dt * ([Right] - [Left]) and
\* z = 5 * dt * ([Down] - [Up]) over the held keys; W and S have no part.
C7_HorizontalFormula ==
    Moved =>
        LET t == Unwrap(Player.translation)
        IN  /\ t.x = 5 * time_delta * TimeDen
                       * (Held("Right", input.pressed) - Held("Left", input.pressed))
            /\ t.z = 5 * time_delta * TimeDen
                       * (Held("Down", input.pressed) - Held("Up", input.pressed))

\* C7 witness: both keys of the x axis held, one of the z axis, and a jump edge
C7_Witness ==
    /\ Moved
    /\ {"Left", "Right", "Up"} \subseteq input.pressed
    /\ "Down" \notin input.pressed
    /\ "W" \in input.just_pressed
    /\ Unwrap(Player.translation).x = 0
    /\ Unwrap(Player.translation).z < 0

\* C8 as claimed: in a frame without a jump or crouch edge the y written is
\* dt * 10 * (a - 10) with a the accumulator the frame before left.
C8_Original ==
    (Moved /\ input.just_pressed = {}) =>
        Unwrap(Player.translation).y * TimeDen
            = 10 * time_delta * (previous_y - 10 * Scale)

\* C8, amended: a key is just pressed only by the event that presses it while
\* it is up, and only until the next frame starts; the accumulator starts
\* from 0 in every frame: it is 10 * dt in a frame with the W edge alone (y is
\* 0 at dt = 1) and 0 in a frame without an edge, where y is -100 * dt
\* whatever the frames before did.
C8_JumpNotCarried ==
    /\ [](Moved =>
            LET y == Unwrap(Player.translation).y
            IN  /\ acc = 10 * time_delta * TimeDen
                           * (Held("W", input.just_pressed)
                              - Held("S", input.just_pressed))
                /\ (input.just_pressed = {} => y = -100 * time_delta * TimeDen)
                /\ (input.just_pressed = {"W"} /\ time_delta = TimeDen => y = 0))
    /\ [][\A k \in JustKeys :
            (k \in input'.just_pressed /\ k \notin input.just_pressed)
                => (k \notin input.pressed /\ k \in input'.pressed)]_vars
    /\ [][pc = "PreUpdate" /\ pc' # pc => input'.just_pressed = {}]_vars

\* C8 witness: a frame without an edge, W still held, after a jump frame
C8_Witness ==
    /\ Moved
    /\ input.just_pressed = {}
    /\ "W" \in input.pressed
    /\ previous_y = 10 * Scale
    /\ Unwrap(Player.translation).y = -100 * time_delta * TimeDen

\* the frame rate and the frame time C9 names
C9_fps ==
    IF diagnostics[FPS] \in {None, Some(None)} THEN Ratio(0, 1)
    ELSE Ratio(Unwrap(Unwrap(diagnostics[FPS])), SampleDen)
C9_frame_time ==
    IF diagnostics[FRAME_TIME] \in {None, Some(None)}
    THEN Ratio(time_delta, TimeDen)
    ELSE Ratio(Unwrap(Unwrap(diagnostics[FRAME_TIME])), SampleDen)

\* C9: in a frame change_text_system ran in, the overlay text is the string
\* formatted from (fps, frame_time): fps the smoothed frame rate if there is
\* one, else 0.0 (also if the metric is not registered); frame_time the
\* smoothed frame time if there is one, else the frame's delta; each chosen
\* on its own.  The other text is left alone.
C9_OverlayText ==
    "change_text_system" \in ran =>
        /\ With("TextChanges") # {}
        /\ \A i \in With("TextChanges") :
              entities[i].text = Format(C9_fps, C9_frame_time)
        /\ \A i \in With("Text") \ With("TextChanges") :
              entities[i].text = SecondText

\* C9 witness: a frame rate sample, no frame time sample, a frame of one second
C9_Witness ==
    /\ "change_text_system" \in ran
    /\ diagnostics[FPS] = Some(Some(1))
    /\ diagnostics[FRAME_TIME] = Some(None)
    /\ time_delta = TimeDen
    /\ entities[1].text
         = "This text changes in the bottom right - 0.1 fps, 1.000 ms/frame"

\* C10: whenever movement runs there is exactly one kinematic-controlled
\* body, so single_mut does not panic, and the body's translation is Some
\* afterwards; the body is there from the moment the state is Next (unless
\* expectations panicked) and no step adds or removes one.
C10_OneControlledBody ==
    /\ [](/\ "movement" \in ran =>
                /\ panic = ""
                /\ Cardinality(Controlled) = 1
                /\ IsSome(Player.translation)
          /\ (state = "Next" /\ panic = "") =>
                (runs = 1 /\ Cardinality(Controlled) = 1)
          /\ state = "AssetLoading" => Controlled = {})
    /\ [][Controlled' # Controlled => (runs = 0 /\ runs' = 1)]_vars

\* C10 witness: movement ran in a frame after the one that built the scene
C10_Witness ==
    /\ Moved
    /\ "expectations" \notin ran
    /\ Cardinality(Controlled) = 1
    /\ IsSome(Player.translation)

====
